---- MODULE Spec2Model ----
(***************************************************************************)
(* Model of src/src/main.rs: the Mandelbrot viewer's World (viewport state *)
(* and renderer) and the winit event loop that drives it.                  *)
(*                                                                         *)
(* f64 values are represented as integers counting units of 1/Q: a binary  *)
(* fixed-point format whose results are rounded to the nearest             *)
(* representable value, ties to even, as IEEE-754 rounds every f64         *)
(* operation.  A value v of the program is the integer v*Q of the model.   *)
(***************************************************************************)
EXTENDS Integers, Sequences, FiniteSets

\* ---------------------------------------------------------------- bounds
\* Units per 1.0 of the number format standing in for f64.
Q == 256
\* const WIDTH / HEIGHT (1024 in the source), reduced to a frame TLC can hold.
WIDTH == 2
HEIGHT == 2
\* iteration_number given by World::new (255 in the source), reduced for the
\* specifications that repaint whole frames.
IterationBound == 12
\* Zooming in is offered while the resulting scale stays <= MaxScale (raw units).
MaxScale == 128
\* Dragging is offered while both offsets stay within -MaxPan..MaxPan (raw units).
MaxPan == 520
\* The largest iteration cap calculate_mandelbrot is called with on its own.
BigCap == 300
\* The sample points of calculate_mandelbrot are the multiples of 1/2 with
\* both coordinates within -GridHalf/2 .. GridHalf/2.
GridHalf == 4

\* ------------------------------------------------------ program constants
HALF_WIDTH == WIDTH \div 2
HALF_HEIGHT == HEIGHT \div 2
\* 64.0 in `> 64.0`
EscapeRadius == 64
\* 255 in `.min(255)`
ClampMax == 255
\* iteration_number: 255
DefaultIterations == 255
\* the alpha byte of [c, c, c, 255]
Alpha == 255
\* par_chunks_exact_mut(4)
ChunkSize == 4
\* 0.9 and 1.1 as ShrinkNum/FactorDen and GrowNum/FactorDen
ShrinkNum == 9
GrowNum == 11
FactorDen == 10

\* ------------------------------------------------------------- arithmetic
Abs(a) == IF a < 0 THEN -a ELSE a

Min(a, b) == IF a < b THEN a ELSE b

\* The alternative rounding of a quotient: towards minus infinity.
RoundDiv_Floor(n, d) == n \div d

\* n/d (d > 0) rounded to the nearest integer, ties to the even one.
RoundDiv(n, d) ==
    LET q == n \div d
        r == n % d
    IN  IF 2 * r < d THEN q
        ELSE IF 2 * r > d THEN q + 1
        ELSE IF q % 2 = 0 THEN q ELSE q + 1

\* `n as f64` for an integer n.
FromInt(n) == n * Q

\* a * b in f64.
Mul(a, b) == RoundDiv(a * b, Q)

\* What a division by zero yields: larger than every value the guards admit.
Inf == 2^30

\* a / b in f64.
Div(a, b) ==
    IF b = 0 THEN (IF a < 0 THEN -Inf ELSE Inf)
    ELSE IF b < 0 THEN RoundDiv(-(a * Q), -b)
    ELSE RoundDiv(a * Q, b)

\* a * (num/den) for a decimal literal num/den (0.9, 1.1).
MulLit(a, num, den) == RoundDiv(a * num, den)

RECURSIVE ISqrtIn(_, _, _)
\* The largest r in lo..hi with r*r <= n (lo*lo <= n).
ISqrtIn(n, lo, hi) ==
    IF lo >= hi THEN lo
    ELSE CHOOSE r \in {IF mid * mid <= n THEN ISqrtIn(n, mid, hi)
                                          ELSE ISqrtIn(n, lo, mid - 1) :
                         mid \in {(lo + hi + 1) \div 2}} : TRUE

\* v.sqrt() in f64 (0 <= v): the representable value nearest the root.
Sqrt(v) ==
    LET n == v * Q
        r == ISqrtIn(n, 0, 46340)
    IN  IF n > r * r + r THEN r + 1 ELSE r

\* `as u8` of a non-negative integer.
AsU8(n) == n % 256

\* ------------------------------------------------------------------ state
VARIABLES
    world,      \* struct World: iteration_number, scale, x_offset, y_offset
    frame,      \* pixels.frame_mut(): the RGBA bytes, 1-based
    pc,         \* where the event loop is: "wait", "draw", "render", "exit"
    redraw,     \* window.request_redraw() is pending
    done,       \* the pixel indices whose work unit of this draw has completed
    writes,     \* <<i, b>>: this draw's work unit i has written byte b
    shown,      \* the frame pixels.render() presented last
    batch,      \* the input batch handled last (NoBatch once it is served)
    before,     \* world when that batch arrived
    zoomed,     \* world after that batch's scroll handling
    c_arg,      \* the point calculate_mandelbrot is called on by itself
    returned    \* iteration cap |-> what that call returned

vars == <<world, frame, pc, redraw, done, writes, shown, batch, before, zoomed,
          c_arg, returned>>

\* ------------------------------------------------------------ World, pure
\* World::new()
World_new ==
    [iteration_number |-> DefaultIterations,
     scale |-> RoundDiv(Q, 2),
     x_offset |-> 0,
     y_offset |-> 0]

\* fn square_complex(x, y)
square_complex(x, y) ==
    LET return_x == Mul(x, x) - Mul(y, y)
        return_y == Mul(Mul(FromInt(2), x), y)
    IN  <<return_x, return_y>>

\* ((x*x + y*y) as f64).sqrt() > 64.0.  The squares are formed only when both
\* operands are within EscapeRadius + 1, beyond which the root exceeds 64 for
\* certain, and the root is taken only when the sum exceeds 64*64, below which
\* it cannot exceed 64.
Exceeds(x, y) ==
    IF Abs(x) > FromInt(EscapeRadius + 1) \/ Abs(y) > FromInt(EscapeRadius + 1)
    THEN TRUE
    ELSE LET sum == Mul(x, x) + Mul(y, y)
         IN  IF sum <= FromInt(EscapeRadius * EscapeRadius) THEN FALSE
             ELSE Sqrt(sum) > FromInt(EscapeRadius)

\* The escape value without the clamp: `i as u8`.
EscapeValue_NoClamp(i) == AsU8(i)

\* (i*1).min(255) as u8
EscapeValue(i) == AsU8(Min(i * 1, ClampMax))

\* One iteration of the for loop of calculate_mandelbrot.  s is the loop's
\* state: the index i, z, and ret, the value returned from inside the loop
\* (-1 while the loop has not returned).
LoopBody(s, c) ==
    LET x == s.z[1] + c[1]
        y == s.z[2] + c[2]
    IN  IF Exceeds(x, y) THEN [s EXCEPT !.ret = EscapeValue(s.i)]
        ELSE [s EXCEPT !.i = s.i + 1, !.z = square_complex(x, y)]

RECURSIVE RunLoop(_, _, _)
\* The next k iterations of the loop, or those up to its return: the first half
\* of them, then the rest from where the first half ended (bound as the one
\* element of a set, so that it is evaluated once).
RunLoop(s, c, k) ==
    IF k <= 0 \/ s.ret # -1 THEN s
    ELSE IF k = 1 THEN LoopBody(s, c)
    ELSE CHOOSE end \in {RunLoop(half, c, k - (k \div 2)) :
                            half \in {RunLoop(s, c, k \div 2)}} : TRUE

\* calculate_mandelbrot returning the iterations left at the escape instead of
\* the iterations taken.
calculate_mandelbrot_Remaining(self, c) ==
    CHOOSE v \in {IF end.ret # -1
                  THEN AsU8(Min(self.iteration_number - end.i, ClampMax))
                  ELSE 0 :
                  end \in {RunLoop([i |-> 0, z |-> <<0, 0>>, ret |-> -1], c,
                                   self.iteration_number)}} : TRUE

\* fn calculate_mandelbrot(&self, c)
calculate_mandelbrot(self, c) ==
    CHOOSE v \in {IF end.ret # -1 THEN end.ret ELSE 0 :
                  end \in {RunLoop([i |-> 0, z |-> <<0, 0>>, ret |-> -1], c,
                                   self.iteration_number)}} : TRUE

\* ---------------------------------------------------------------- frames
NoBatch == [kind |-> "none"]

EmptyReturns == [n \in {} |-> 0]

\* The frame Pixels::new(WIDTH, HEIGHT, ..) allocates: zeroed bytes.
NewFrame == [b \in 1..(WIDTH * HEIGHT * ChunkSize) |-> 0]

\* ------------------------------------------------------------ World::draw
\* The work units of frame.par_chunks_exact_mut(4).enumerate(): one per whole
\* chunk of f, numbered from 0; a remainder shorter than a chunk gets none.
Units(f) == 0..((Len(f) \div ChunkSize) - 1)

\* Chunks laid one byte short of each other.
ChunkStart_Overlap(i) == (ChunkSize - 1) * i

\* The bytes before chunk i.
ChunkStart(i) == ChunkSize * i

\* The (1-based) bytes of chunk i.
ChunkBytes(i) == (ChunkStart(i) + 1)..(ChunkStart(i) + ChunkSize)

\* The closure's rgba with the intensity in the alpha byte too.
Rgba_AlphaIntensity(self, i) ==
    LET x == i % WIDTH
        y == i \div WIDTH
        relative_x == Div(FromInt(x), Mul(FromInt(HALF_WIDTH), self.scale))
                        + self.x_offset - Div(FromInt(1), self.scale)
        relative_y == Div(FromInt(y), Mul(FromInt(HALF_HEIGHT), self.scale))
                        + self.y_offset - Div(FromInt(1), self.scale)
    IN  CHOOSE rgba \in {<<c, c, c, c>> :
                c \in {calculate_mandelbrot(self, p) :
                          p \in {<<relative_x, relative_y>>}}} : TRUE

\* The closure of draw up to `let rgba`: what work unit i computes for its
\* pixel.  The point and the intensity c are bound as the one element of a set,
\* which evaluates each once.
Rgba(self, i) ==
    LET x == i % WIDTH
        y == i \div WIDTH
        relative_x == Div(FromInt(x), Mul(FromInt(HALF_WIDTH), self.scale))
                        + self.x_offset - Div(FromInt(1), self.scale)
        relative_y == Div(FromInt(y), Mul(FromInt(HALF_HEIGHT), self.scale))
                        + self.y_offset - Div(FromInt(1), self.scale)
    IN  CHOOSE rgba \in {<<c, c, c, Alpha>> :
                c \in {calculate_mandelbrot(self, p) :
                          p \in {<<relative_x, relative_y>>}}} : TRUE

\* for_each returning as soon as some work unit is through.
ForEachComplete_Any == done # {}

\* for_each returns once every work unit has run.
ForEachComplete == done = Units(frame)

\* Work unit i of the draw in progress: pixel.copy_from_slice(&rgba).
PixelUnit(i) ==
    /\ pc = "draw"
    /\ i \in Units(frame) \ done
    /\ \E rgba \in {Rgba(world, i)} :
          frame' = [b \in DOMAIN frame |->
                      IF b \in ChunkBytes(i) THEN rgba[b - ChunkStart(i)]
                      ELSE frame[b]]
    /\ done' = done \cup {i}
    /\ writes' = writes \cup {<<i, b>> : b \in ChunkBytes(i) \cap DOMAIN frame}
    /\ UNCHANGED <<world, pc, redraw, shown, batch, before, zoomed, c_arg, returned>>

\* world.draw(..) returns to the event loop, which goes on to pixels.render().
DrawReturn ==
    /\ pc = "draw"
    /\ ForEachComplete
    /\ pc' = "render"
    /\ UNCHANGED <<world, frame, redraw, done, writes, shown, batch, before,
                   zoomed, c_arg, returned>>

\* ------------------------------------------------------- World::draw alone
\* Worlds draw is called on by itself.
SampleWorlds ==
    {[iteration_number |-> IterationBound, scale |-> sc, x_offset |-> xo,
      y_offset |-> yo] :
        sc \in {RoundDiv(Q, 4), RoundDiv(Q, 2), Q},
        xo \in {-Q, 0, RoundDiv(Q, 4)},
        yo \in {0, RoundDiv(Q, 2)}}

\* Frames draw is called on by itself: of the length of the pixel buffer, one
\* byte short of it, and one chunk longer, holding an earlier picture.
SampleFrames ==
    {[b \in 1..len |-> fill] :
        len \in {WIDTH * HEIGHT * ChunkSize, WIDTH * HEIGHT * ChunkSize - 1,
                 WIDTH * HEIGHT * ChunkSize + ChunkSize},
        fill \in {0, 77}}

InitDraw ==
    /\ world \in SampleWorlds
    /\ frame \in SampleFrames
    /\ pc = "draw"
    /\ redraw = FALSE
    /\ done = {}
    /\ writes = {}
    /\ shown = NewFrame
    /\ batch = NoBatch
    /\ before = world
    /\ zoomed = world
    /\ c_arg = <<0, 0>>
    /\ returned = EmptyReturns

NextDraw ==
    \/ \E i \in 0..(WIDTH * HEIGHT + 1) : PixelUnit(i)
    \/ DrawReturn

SpecDraw == InitDraw /\ [][NextDraw]_vars

\* ------------------------------------------------------------- event loop
ScrollDiffs == {-1, 0, 1}

MouseDiffs == {<<0, 0>>, <<1, 0>>, <<0, -1>>}

\* What the input helper has gathered when input.update(&event) returns true.
Batches ==
    [kind : {"input"},
     close_requested : BOOLEAN,
     window_resized : {"no", "ok", "err"},
     scroll_diff : ScrollDiffs,
     mouse_held : BOOLEAN,
     mouse_diff : MouseDiffs]

\* The scroll handling with its branches the other way round.
ApplyScroll_Swapped(w, scroll_diff) ==
    IF scroll_diff # 0
    THEN IF scroll_diff < 0
         THEN [w EXCEPT !.scale = MulLit(w.scale, GrowNum, FactorDen)]
         ELSE [w EXCEPT !.scale = MulLit(w.scale, ShrinkNum, FactorDen)]
    ELSE w

\* let scroll_diff = input.scroll_diff(); if scroll_diff != 0.0 { .. }
ApplyScroll(w, scroll_diff) ==
    IF scroll_diff # 0
    THEN IF scroll_diff < 0
         THEN [w EXCEPT !.scale = MulLit(w.scale, ShrinkNum, FactorDen)]
         ELSE [w EXCEPT !.scale = MulLit(w.scale, GrowNum, FactorDen)]
    ELSE w

\* The drag handling moving by the same plane distance at every zoom.
ApplyDrag_NoScale(w, mouse_held, mouse_diff) ==
    IF mouse_held
    THEN [w EXCEPT
            !.x_offset = w.x_offset
                - Div(FromInt(mouse_diff[1]), FromInt(HALF_WIDTH)),
            !.y_offset = w.y_offset
                - Div(FromInt(mouse_diff[2]), FromInt(HALF_HEIGHT))]
    ELSE w

\* if input.mouse_held(0) { world.x_offset -= ..; world.y_offset -= ..; }
ApplyDrag(w, mouse_held, mouse_diff) ==
    IF mouse_held
    THEN [w EXCEPT
            !.x_offset = w.x_offset
                - Div(Div(FromInt(mouse_diff[1]), FromInt(HALF_WIDTH)), w.scale),
            !.y_offset = w.y_offset
                - Div(Div(FromInt(mouse_diff[2]), FromInt(HALF_HEIGHT)), w.scale)]
    ELSE w

\* A redraw requested only by a batch that scrolled or dragged.
RequestsRedraw_OnChange(b) == b.scroll_diff # 0 \/ b.mouse_held

\* window.request_redraw() closes the handling of every batch that gets there.
RequestsRedraw(b) == TRUE

\* The batches offered: those that keep the viewport within the model's range.
InRange(w) ==
    /\ w.scale <= MaxScale
    /\ Abs(w.x_offset) <= MaxPan
    /\ Abs(w.y_offset) <= MaxPan

Init ==
    /\ world = [World_new EXCEPT !.iteration_number = IterationBound]
    /\ frame = NewFrame
    /\ pc = "wait"
    /\ redraw = FALSE
    /\ done = {}
    /\ writes = {}
    /\ shown = NewFrame
    /\ batch = NoBatch
    /\ before = world
    /\ zoomed = world
    /\ c_arg = <<0, 0>>
    /\ returned = EmptyReturns

\* Event::MainEventsCleared: input.update(&event) returns true and the closure
\* handles the batch b.  A redraw that has been requested is served first.
MainEventsCleared(b) ==
    /\ pc = "wait"
    /\ ~redraw
    /\ batch' = b
    /\ before' = world
    /\ IF b.close_requested \/ b.window_resized = "err"
       THEN /\ pc' = "exit"
            /\ zoomed' = world
            /\ UNCHANGED <<world, redraw>>
       ELSE /\ zoomed' = ApplyScroll(world, b.scroll_diff)
            /\ world' = ApplyDrag(zoomed', b.mouse_held, b.mouse_diff)
            /\ InRange(world')
            /\ redraw' = RequestsRedraw(b)
            /\ pc' = "wait"
    /\ UNCHANGED <<frame, done, writes, shown, c_arg, returned>>

\* Event::RedrawRequested, asked for by request_redraw or by the window
\* system: world.draw(pixels.frame_mut()) starts its work units.
RedrawRequested ==
    /\ pc = "wait"
    /\ pc' = "draw"
    /\ redraw' = FALSE
    /\ done' = {}
    /\ writes' = {}
    /\ batch' = NoBatch
    /\ before' = world
    /\ zoomed' = world
    /\ UNCHANGED <<world, frame, shown, c_arg, returned>>

\* pixels.render() after the draw: it presents the frame, or fails and the
\* closure sets ControlFlow::Exit.
Render(ok) ==
    /\ pc = "render"
    /\ IF ok THEN shown' = frame /\ pc' = "wait"
             ELSE shown' = shown /\ pc' = "exit"
    /\ UNCHANGED <<world, frame, redraw, done, writes, batch, before, zoomed,
                   c_arg, returned>>

Next ==
    \/ \E b \in Batches : MainEventsCleared(b)
    \/ RedrawRequested
    \/ \E i \in 0..(WIDTH * HEIGHT - 1) : PixelUnit(i)
    \/ DrawReturn
    \/ \E ok \in BOOLEAN : Render(ok)

Spec == Init /\ [][Next]_vars

\* The event loop delivers a requested redraw, the thread pool runs every work
\* unit, and the calls return.
FairSpec ==
    /\ Spec
    /\ WF_vars(redraw /\ RedrawRequested)
    /\ WF_vars(\E i \in 0..(WIDTH * HEIGHT - 1) : PixelUnit(i))
    /\ WF_vars(DrawReturn)

\* --------------------------------------------------- properties of draw
\* Every pixel of f holds what draw computes for it from w.
ShowsWorld(f, w) ==
    \A i \in Units(f) : \E rgba \in {Rgba(w, i)} :
        \A k \in 1..4 : f[4 * i + k] = rgba[k]

\* C1: when draw returns on a frame of WIDTH*HEIGHT*4 bytes, every pixel
\* i < WIDTH*HEIGHT has all four of its bytes written by this draw, and they
\* are (v, v, v, 255) for one intensity v.
C1_FullOverwrite ==
    (pc = "render" /\ Len(frame) = WIDTH * HEIGHT * 4) =>
        \A i \in 0..(WIDTH * HEIGHT - 1) :
            /\ \E v \in 0..255 :
                  /\ frame[4 * i + 1] = v
                  /\ frame[4 * i + 2] = v
                  /\ frame[4 * i + 3] = v
            /\ frame[4 * i + 4] = 255
            /\ \A k \in 1..4 : \E u \in done : <<u, 4 * i + k>> \in writes

\* A draw has returned on a frame of the right length with pixels of a
\* non-zero intensity beside pixels of intensity 0.
C1_Witness ==
    /\ pc = "render"
    /\ Len(frame) = WIDTH * HEIGHT * 4
    /\ \E i \in 0..(WIDTH * HEIGHT - 1) : frame[4 * i + 1] \notin {0, 77}
    /\ \E i \in 0..(WIDTH * HEIGHT - 1) : frame[4 * i + 1] = 0

\* C8: draw on a frame whose length is not WIDTH*HEIGHT*4 fails fast: it
\* writes nothing and does not return normally.
C8_FailsFast ==
    Len(frame) # WIDTH * HEIGHT * 4 => (writes = {} /\ pc = "draw")

\* C9: work unit i writes exactly the bytes 4i..4i+3 (here 4i+1..4i+4), no
\* byte is written by two work units, and when the draw returns the frame is
\* what the world determines, whatever the order of the work units and
\* whatever the frame held before.
C9_DisjointWrites ==
    /\ \A w \in writes : w[1] \in done /\ w[2] \in (4 * w[1] + 1)..(4 * w[1] + 4)
    /\ \A i \in done : \A k \in 1..4 : <<i, 4 * i + k>> \in writes
    /\ \A w1, w2 \in writes : w1[2] = w2[2] => w1[1] = w2[1]
    /\ \A i \in done : \E rgba \in {Rgba(world, i)} :
          \A k \in 1..4 : frame[4 * i + k] = rgba[k]
    /\ pc = "render" => ShowsWorld(frame, world)

\* Work units have completed out of index order, others are still to run.
C9_Witness ==
    /\ pc = "draw"
    /\ Len(frame) = WIDTH * HEIGHT * 4
    /\ 0 \notin done
    /\ (WIDTH * HEIGHT - 1) \in done
    /\ Cardinality(writes) = 4 * Cardinality(done)

\* ------------------------------------------- properties of the event loop
\* A batch has just been handled and the loop goes on.
Handled == batch.kind = "input" /\ pc # "exit"

\* C3: between the start of a draw and the completion of its last work unit
\* the viewport state is not changed and nothing is presented: while the draw
\* runs every step leaves world and the presented frame alone, and the loop
\* is at pixels.render() only with every work unit of the draw completed.
C3_Sequential ==
    /\ [](pc = "render" => done = 0..(WIDTH * HEIGHT - 1))
    /\ [][pc = "draw" => (world' = world /\ shown' = shown)]_vars

\* A draw is under way with some work units completed and others not, on a
\* viewport that input has changed, the frame still holding older pixels.
C3_Witness ==
    /\ pc = "draw"
    /\ Cardinality(done) = 2
    /\ world.x_offset # 0
    /\ ~ShowsWorld(frame, world)

\* C4 as stated: every processed input batch ends with a redraw request.
C4_Original ==
    /\ batch.kind = "input" => redraw
    /\ pc = "render" => ShowsWorld(frame, world)

\* C4, amended: every processed input batch that does not end the event loop
\* (close request, failed surface resize) ends with a redraw request and with
\* its zoom and pan applied to the viewport; the draw serving the request has
\* painted the whole frame from that viewport when it returns; and every
\* requested redraw leads to such a returned draw.
C4_RedrawFollowsUpdate ==
    /\ [](Handled =>
            /\ redraw
            /\ world = ApplyDrag(ApplyScroll(before, batch.scroll_diff),
                                 batch.mouse_held, batch.mouse_diff))
    /\ [](pc = "render" => ShowsWorld(frame, world))
    /\ (redraw ~> (pc = "render" /\ ~redraw /\ ShowsWorld(frame, world)))

\* A batch that changed the viewport has been handled; the frame does not yet
\* show the new viewport.
C4_Witness ==
    /\ Handled
    /\ redraw
    /\ world # before
    /\ ~ShowsWorld(frame, world)

\* C5: the scroll handling turns scale into scale*0.9 for a negative delta,
\* scale*1.1 for a positive one and leaves it for 0, and never touches
\* x_offset, y_offset or iteration_number.
C5_ScrollZoom ==
    Handled =>
        /\ zoomed.scale =
              IF batch.scroll_diff < 0 THEN RoundDiv(before.scale * 9, 10)
              ELSE IF batch.scroll_diff > 0 THEN RoundDiv(before.scale * 11, 10)
              ELSE before.scale
        /\ zoomed.x_offset = before.x_offset
        /\ zoomed.y_offset = before.y_offset
        /\ zoomed.iteration_number = before.iteration_number
        /\ world.iteration_number = before.iteration_number

\* A scroll with a negative delta has shrunk the scale of a panned viewport.
C5_Witness ==
    /\ Handled
    /\ batch.scroll_diff < 0
    /\ zoomed.scale < before.scale
    /\ before.x_offset # 0

\* C6: scale is strictly positive in every reachable state, and so are the
\* divisors formed from it.
C6_ScalePositive ==
    /\ world.scale > 0
    /\ zoomed.scale > 0
    /\ Mul(FromInt(HALF_WIDTH), world.scale) > 0
    /\ Mul(FromInt(HALF_HEIGHT), world.scale) > 0

\* A scroll with a negative delta on the smallest scale the viewport reaches.
C6_Witness ==
    /\ Handled
    /\ batch.scroll_diff < 0
    /\ zoomed.scale = before.scale
    /\ world.scale < World_new.scale

\* C7: a drag by (dx, dy) subtracts dx/HALF_WIDTH/scale from x_offset and
\* dy/HALF_HEIGHT/scale from y_offset and leaves scale alone; the distance
\* moved times the scale is the pixel fraction dragged (to within the rounding
\* of the quotient), and a drag by (0, 0) moves nothing.
C7_DragPan ==
    (Handled /\ batch.mouse_held) =>
        LET dx == batch.mouse_diff[1]
            dy == batch.mouse_diff[2]
            mx == zoomed.x_offset - world.x_offset
            my == zoomed.y_offset - world.y_offset
            fx == Div(FromInt(dx), FromInt(HALF_WIDTH))
            fy == Div(FromInt(dy), FromInt(HALF_HEIGHT))
        IN  /\ world.scale = zoomed.scale
            /\ mx = Div(fx, zoomed.scale)
            /\ my = Div(fy, zoomed.scale)
            /\ 2 * Abs(mx * zoomed.scale - fx * Q) <= zoomed.scale
            /\ 2 * Abs(my * zoomed.scale - fy * Q) <= zoomed.scale
            /\ dx = 0 => world.x_offset = zoomed.x_offset
            /\ dy = 0 => world.y_offset = zoomed.y_offset

\* A drag along x has moved x_offset and left y_offset, after a zoom.
C7_Witness ==
    /\ Handled
    /\ batch.mouse_held
    /\ batch.mouse_diff = <<1, 0>>
    /\ world.x_offset < zoomed.x_offset
    /\ world.y_offset = zoomed.y_offset
    /\ world.scale # World_new.scale

\* ------------------------------------- calculate_mandelbrot called by itself
\* A point whose orbit takes more than ClampMax iterations to leave the
\* escape radius (raw units, for Q = 256).
SlowPoint == <<-187, 60>>

CInputs ==
    {<<RoundDiv(a * Q, 2), RoundDiv(b * Q, 2)>> : a, b \in -GridHalf..GridHalf}
        \cup {SlowPoint, <<FromInt(EscapeRadius + 1), 0>>}

Caps == {0, 1, 3, DefaultIterations, BigCap}

InitCalc ==
    /\ c_arg \in CInputs
    /\ returned = EmptyReturns
    /\ world = World_new
    /\ frame = NewFrame
    /\ pc = "wait"
    /\ redraw = FALSE
    /\ done = {}
    /\ writes = {}
    /\ shown = NewFrame
    /\ batch = NoBatch
    /\ before = World_new
    /\ zoomed = World_new

\* One call of calculate_mandelbrot on c_arg by a World whose iteration_number is n.
Call(n) ==
    /\ n \notin DOMAIN returned
    /\ returned' = [m \in DOMAIN returned \cup {n} |->
                      IF m = n
                      THEN calculate_mandelbrot(
                               [World_new EXCEPT !.iteration_number = n], c_arg)
                      ELSE returned[m]]
    /\ UNCHANGED <<world, frame, pc, redraw, done, writes, shown, batch, before,
                   zoomed, c_arg>>

NextCalc == \E n \in Caps : Call(n)

SpecCalc == InitCalc /\ [][NextCalc]_vars

\* The orbit of c: the values z + c of iterations 0, 1, .. up to the first one
\* beyond the escape radius (out), k more of them at most.
RECURSIVE Orbit(_, _, _)
Orbit(o, c, k) ==
    IF k <= 0 \/ o.out THEN o
    ELSE IF k = 1
    THEN LET p == <<o.z[1] + c[1], o.z[2] + c[2]>>
         IN  IF Exceeds(p[1], p[2])
             THEN [o EXCEPT !.xs = Append(o.xs, p), !.out = TRUE]
             ELSE [o EXCEPT !.xs = Append(o.xs, p),
                            !.z = square_complex(p[1], p[2])]
    ELSE CHOOSE end \in {Orbit(half, c, k - (k \div 2)) :
                            half \in {Orbit(o, c, k \div 2)}} : TRUE

\* The 0-based index of the first iteration below n at which the magnitude of
\* z + c exceeds the escape radius; -1 when there is none.
FirstEscape(c, n) ==
    LET o == Orbit([z |-> <<0, 0>>, xs |-> <<>>, out |-> FALSE], c, n).xs
        E == {k \in 1..Len(o) : Exceeds(o[k][1], o[k][2])}
    IN  IF E = {} THEN -1 ELSE (CHOOSE k \in E : \A j \in E : k <= j) - 1

\* C2: every call of calculate_mandelbrot returns the index of the first
\* iteration below the cap at which |z + c| exceeds 64, clamped to 0..255, and
\* 0 when no iteration below the cap exceeds it; c = (0,0) under cap 255 gives 0.
C2_FirstEscapeIndex ==
    /\ \A n \in DOMAIN returned :
          LET k == FirstEscape(c_arg, n)
          IN  returned[n] = IF k < 0 THEN 0 ELSE IF k > 255 THEN 255 ELSE k
    /\ (c_arg = <<0, 0>> /\ 255 \in DOMAIN returned) => returned[255] = 0

\* A call whose escape index is beyond 255 has returned, and so has the call
\* on (0,0) under cap 255.
C2_Witness ==
    /\ BigCap \in DOMAIN returned
    /\ FirstEscape(c_arg, BigCap) > 255
    /\ returned[BigCap] = 255

\* C10: for caps n <= m on the same point, an escape recorded under n is
\* recorded under m at the same index (so not a smaller one), and a point with
\* a non-zero intensity under n keeps it under m.
C10_CapMonotone ==
    \A n, m \in DOMAIN returned :
        (n <= m /\ FirstEscape(c_arg, n) >= 0) =>
            /\ FirstEscape(c_arg, m) = FirstEscape(c_arg, n)
            /\ returned[m] >= returned[n]
            /\ returned[m] = returned[n]

\* A point that does not escape under the smaller cap and escapes under the
\* larger, next to one that escapes under both.
C10_Witness ==
    /\ DOMAIN returned = Caps
    /\ FirstEscape(c_arg, 3) < 0
    /\ FirstEscape(c_arg, DefaultIterations) >= 3
    /\ returned[BigCap] = returned[DefaultIterations]
    /\ returned[BigCap] > 0

====
